---------------------------- MODULE Spec2Model ----------------------------
(***************************************************************************)
(* Bedtime story pipeline: src/main.py (generate_and_refine_story and its  *)
(* helpers) behind the HTTP endpoint of src/server.py (generate_story).    *)
(*                                                                         *)
(* One request is followed from its arrival to the HTTP response.  The     *)
(* text-generation service is a stub fixed for the request: what it would  *)
(* answer to a call of each kind.  Model output is text: a sequence of     *)
(* lexical tokens.  JSON values are tagged records [kind, val].            *)
(***************************************************************************)
EXTENDS Integers, Sequences, FiniteSets

(***************************************************************************)
(* Bounds of the model.                                                    *)
(***************************************************************************)
\* Most criteria a scores map drawn for the acceptance rule holds.
MaxCriteria == 2

(***************************************************************************)
(* Program constants.                                                      *)
(***************************************************************************)
\* main.py:266  for attempt in range(3)
MAX_ROUNDS == 3
\* main.py:292  avg_score >= 7.5, kept as the fraction 15/2
THRESHOLD_NUM == 15
THRESHOLD_DEN == 2
\* main.py:296  [:5]
MAX_REVISIONS == 5

\* main.py:33-40
THEMES ==
  << "Adventure", "Animal Friends", "Problem Solving", "Friendship", "Magic/Fantasy",
     "Space", "Family", "Courage", "Kindness", "Honesty", "Justice", "Teamwork",
     "Be Yourself", "Love", "Hope", "Hard Work", "Loyalty", "Persistence",
     "Compassion", "Generosity", "Holidays", "Peace", "Equality", "Siblings",
     "Festival", "Summer Break", "Facing Fears", "Gratitude", "Self-Confidence",
     "Helping Others" >>

\* main.py:42-47
SETTINGS ==
  << "Farm", "Ocean", "Jungle", "Forest", "Neighborhood", "Backyard", "Park",
     "Mountain", "Beach", "School", "Space", "Castle", "Under the Bed",
     "Treehouse", "Desert", "Arctic", "Magical Land", "Playground", "Circus",
     "Library" >>

\* main.py:49-56, in the dictionary's insertion order; words are character
\* sequences so that `kw in lower` is a substring test.
MOOD_KEYWORDS ==
  << [mood |-> "calm",
      keys |-> << <<"c","a","l","m">>,
                  <<"s","l","e","e","p","y">>,
                  <<"t","i","r","e","d">>,
                  <<"c","o","z","y">>,
                  <<"b","e","d","t","i","m","e">>,
                  <<"r","e","l","a","x","e","d">> >>],
     [mood |-> "anxious",
      keys |-> << <<"s","c","a","r","e","d">>,
                  <<"l","o","s","t">>,
                  <<"a","n","x","i","o","u","s">>,
                  <<"a","f","r","a","i","d">>,
                  <<"w","o","r","r","i","e","d">>,
                  <<"n","e","r","v","o","u","s">> >>],
     [mood |-> "excited",
      keys |-> << <<"e","x","c","i","t","e","d">>,
                  <<"a","d","v","e","n","t","u","r","e">>,
                  <<"e","n","e","r","g","e","t","i","c">>,
                  <<"h","a","p","p","y">>,
                  <<"b","o","u","n","c","y">> >>],
     [mood |-> "sad",
      keys |-> << <<"s","a","d">>,
                  <<"d","o","w","n">>,
                  <<"l","o","n","e","l","y">>,
                  <<"m","i","s","s">>,
                  <<"c","r","y">> >>],
     [mood |-> "curious",
      keys |-> << <<"c","u","r","i","o","u","s">>,
                  <<"w","o","n","d","e","r">>,
                  <<"a","s","k">>,
                  <<"h","o","w">>,
                  <<"w","h","y">>,
                  <<"w","h","a","t">> >>],
     [mood |-> "playful",
      keys |-> << <<"f","u","n">>,
                  <<"s","i","l","l","y">>,
                  <<"j","o","k","e">>,
                  <<"p","l","a","y">> >>] >>

\* main.py:80  the moods tried for a direct mention, in this order
MOOD_LABELS ==
  << [mood |-> "calm",    name |-> <<"c","a","l","m">>],
     [mood |-> "anxious", name |-> <<"a","n","x","i","o","u","s">>],
     [mood |-> "excited", name |-> <<"e","x","c","i","t","e","d">>],
     [mood |-> "sad",     name |-> <<"s","a","d">>],
     [mood |-> "curious", name |-> <<"c","u","r","i","o","u","s">>],
     [mood |-> "playful", name |-> <<"p","l","a","y","f","u","l">>] >>

(***************************************************************************)
(* Small helpers on sequences.                                             *)
(***************************************************************************)
Range(s) == { s[i] : i \in DOMAIN s }

Min(a, b) == IF a <= b THEN a ELSE b

\* Python's `needle in haystack` on strings: a contiguous occurrence.
IsSubstring(needle, hay) ==
  \E i \in 0..(Len(hay) - Len(needle)) :
     SubSeq(hay, i + 1, i + Len(needle)) = needle

\* Python's s[:n]
Prefix(s, n) == SubSeq(s, 1, Min(n, Len(s)))

(***************************************************************************)
(* JSON values.                                                            *)
(***************************************************************************)
JNull == [kind |-> "null", val |-> <<>>]
JNum(n) == [kind |-> "num", val |-> n]
\* a string value holds its text
JStr(t) == [kind |-> "str", val |-> t]
JList(s) == [kind |-> "list", val |-> s]
\* a dictionary is a function from its keys
JDict(f) == [kind |-> "dict", val |-> f]
EmptyDict == JDict(<<>>)

\* the value of a local that has not been assigned yet
Unset == [kind |-> "unset", val |-> <<>>]

\* Python truthiness: bool(v)
Truthy(v) ==
  CASE v.kind = "null" -> FALSE
    [] v.kind = "num"  -> v.val # 0
    [] v.kind = "str"  -> v.val # <<>>
    [] v.kind = "list" -> v.val # <<>>
    [] v.kind = "dict" -> DOMAIN v.val # {}
    [] OTHER -> FALSE


(***************************************************************************)
(* Model output as text.  A text is a sequence of tokens: "{" and "}",     *)
(* the prose word "w", a token that is a complete JSON literal with no     *)
(* brace in it (AtomTokens), or a token that is the member list of a JSON  *)
(* object (BodyTokens), which is JSON only between "{" and "}".            *)
(***************************************************************************)
\* main.py:144-152  the eight rubric criteria, as the judge prompt lists them
CRITERIA ==
  << "AgeAppropriateness", "ToneCalmness", "ImageryQuality", "SentenceSimplicity",
     "EmotionalClarity", "ProblemSolvingPresence", "StructureCompleteness",
     "SleepinessFactor" >>

\* a scores map giving the i-th criterion the i-th number
ScoresOf(nums) ==
  JDict([c \in Range(CRITERIA) |->
           JNum(nums[CHOOSE i \in DOMAIN CRITERIA : CRITERIA[i] = c])])

\* n revision instructions "r1" .. "rn"
Revs(n) ==
  JList([i \in 1..n |->
           JStr(<<CASE i = 1 -> "r1" [] i = 2 -> "r2" [] i = 3 -> "r3"
                    [] i = 4 -> "r4" [] i = 5 -> "r5" [] i = 6 -> "r6"
                    [] OTHER -> "r7">>)])

Critique == JStr(<<"critique-text">>)

AtomTokens == { "7", "null", "[1]", "[scores]", "'scores'", "[tracks]" }

AtomValue(tok) ==
  CASE tok = "7"        -> JNum(7)
    [] tok = "null"     -> JNull
    [] tok = "[1]"      -> JList(<<JNum(1)>>)
    [] tok = "[scores]" -> JList(<<JStr(<<"scores">>)>>)
    [] tok = "'scores'" -> JStr(<<"scores">>)
    [] tok = "[tracks]" -> JList(<<EmptyDict, EmptyDict, EmptyDict>>)

BodyTokens ==
  { "high", "boundary", "below", "low2", "low6", "low-norev", "low-nullrev",
    "one", "empty", "nullscores", "listscores", "textscores", "noscores",
    "cards" }

\* the members each body token stands for
BodyValue(tok) ==
  CASE tok = "high" ->
         [scores |-> ScoresOf(<<9, 9, 9, 9, 9, 9, 9, 9>>), critique |-> Critique,
          revisions |-> Revs(0)]
    [] tok = "boundary" ->
         [scores |-> ScoresOf(<<8, 7, 8, 7, 8, 7, 8, 7>>), critique |-> Critique,
          revisions |-> Revs(1)]
    [] tok = "below" ->
         [scores |-> ScoresOf(<<8, 7, 8, 7, 8, 7, 7, 7>>), critique |-> Critique,
          revisions |-> Revs(1)]
    [] tok = "low2" ->
         [scores |-> ScoresOf(<<1, 1, 1, 1, 1, 1, 1, 1>>), critique |-> Critique,
          revisions |-> Revs(2)]
    [] tok = "low6" ->
         [scores |-> ScoresOf(<<1, 1, 1, 1, 1, 1, 1, 1>>), critique |-> Critique,
          revisions |-> Revs(6)]
    [] tok = "low-norev" ->
         [scores |-> ScoresOf(<<1, 1, 1, 1, 1, 1, 1, 1>>), critique |-> Critique]
    [] tok = "low-nullrev" ->
         [scores |-> ScoresOf(<<1, 1, 1, 1, 1, 1, 1, 1>>), critique |-> Critique,
          revisions |-> JNull]
    [] tok = "one" ->
         [scores |-> JDict([c \in {"ToneCalmness"} |-> JNum(8)]),
          revisions |-> Revs(1)]
    [] tok = "empty" ->
         [scores |-> EmptyDict, revisions |-> Revs(1)]
    [] tok = "nullscores" ->
         [scores |-> JNull, revisions |-> Revs(1)]
    [] tok = "listscores" ->
         [scores |-> JList(<<JNum(9), JNum(9)>>), revisions |-> Revs(1)]
    [] tok = "textscores" ->
         [scores |-> JDict([c \in {"ToneCalmness"} |-> JStr(<<"high">>)]),
          revisions |-> Revs(1)]
    [] tok = "noscores" ->
         [critique |-> Critique, revisions |-> Revs(1)]
    [] tok = "cards" ->
         [characters |-> JList(<<>>), setting |-> JStr(<<"setting-card">>),
          moral |-> JStr(<<"moral-card">>)]

\* json.loads(text): [ok |-> TRUE, value |-> v], or ok = FALSE where it raises
JsonLoads(text) ==
  CASE Len(text) = 1 /\ text[1] \in AtomTokens ->
         [ok |-> TRUE, value |-> AtomValue(text[1])]
    [] Len(text) = 2 /\ text[1] = "{" /\ text[2] = "}" ->
         [ok |-> TRUE, value |-> EmptyDict]
    [] Len(text) = 3 /\ text[1] = "{" /\ text[2] \in BodyTokens /\ text[3] = "}" ->
         [ok |-> TRUE, value |-> JDict(BodyValue(text[2]))]
    [] OTHER -> [ok |-> FALSE, value |-> Unset]

\* the tagged error of parse_json_safe
ParseError(kind, text) ==
  JDict([error |-> JStr(<<kind>>), raw |-> JStr(text)])

\* a variant of main.py:203 whose pattern is not greedy: it matches from the
\* first "{" to the first "}" after it
parse_json_safe_lazy(text) ==
  LET whole  == JsonLoads(text)
      opens  == { i \in DOMAIN text : text[i] = "{" }
      first  == CHOOSE i \in opens : \A k \in opens : i <= k
      closes == { i \in DOMAIN text : text[i] = "}" /\ first < i }
      next   == CHOOSE j \in closes : \A k \in closes : j <= k
  IN  IF whole.ok THEN whole.value
      ELSE IF opens # {} /\ closes # {}
           THEN LET inner == JsonLoads(SubSeq(text, first, next))
                IN  IF inner.ok THEN inner.value
                    ELSE ParseError("invalid_json", text)
           ELSE ParseError("no_json", text)

\* main.py:198-210.  re.search(r"\{.*\}", text, re.DOTALL) is greedy: it
\* matches from the first "{" to the last "}" after it, if there is one.
parse_json_safe(text) ==
  LET whole  == JsonLoads(text)
      opens  == { i \in DOMAIN text : text[i] = "{" }
      closes == { i \in DOMAIN text : text[i] = "}" }
      first  == CHOOSE i \in opens : \A k \in opens : i <= k
      last   == CHOOSE j \in closes : \A k \in closes : k <= j
  IN  IF whole.ok THEN whole.value
      ELSE IF opens # {} /\ closes # {} /\ first < last
           THEN LET inner == JsonLoads(SubSeq(text, first, last))
                IN  IF inner.ok THEN inner.value
                    ELSE ParseError("invalid_json", text)
           ELSE ParseError("no_json", text)

\* main.py:321-325 and 330-333: json.loads, and parse_json_safe where it raises
parse_artifact(raw) ==
  LET direct == JsonLoads(raw)
  IN  IF direct.ok THEN direct.value ELSE parse_json_safe(raw)

IsParseError(v) ==
  v.kind = "dict" /\ DOMAIN v.val = {"error", "raw"}

(***************************************************************************)
(* The judge's verdict and the acceptance rule.                            *)
(***************************************************************************)
\* main.py:292  attempt == 2
LAST_ATTEMPT == 2

\* main.py:273-286
FALLBACK_VERDICT ==
  JDict([scores    |-> ScoresOf(<<8, 7, 7, 7, 7, 8, 7, 7>>),
         critique  |-> JStr(<<"Judge failed to return JSON; using fallback scores.">>),
         revisions |-> JList(<< JStr(<<"Ensure the problem solving steps are explicit.">>),
                                JStr(<<"Make ending more calming.">>) >>)])

\* Python's `"scores" in v`: "yes", "no", or the exception it raises
HasScores(v) ==
  CASE v.kind = "dict" -> IF "scores" \in DOMAIN v.val THEN "yes" ELSE "no"
    [] v.kind = "list" -> IF JStr(<<"scores">>) \in Range(v.val) THEN "yes" ELSE "no"
    [] v.kind = "str"  -> IF "scores" \in Range(v.val) THEN "yes" ELSE "no"
    [] OTHER -> "TypeError"

\* main.py:269-286: parse the judge's text; without a "scores" in it, the
\* fallback verdict.  json is the value judge_json holds afterwards.
judge_verdict(judge_raw) ==
  LET parsed == parse_json_safe(judge_raw)
      has    == HasScores(parsed)
  IN  CASE has = "yes" -> [exc |-> "none", json |-> parsed]
        [] has = "no"  -> [exc |-> "none", json |-> FALLBACK_VERDICT]
        [] OTHER       -> [exc |-> has, json |-> parsed]

\* the sum of a dictionary's numbers
RECURSIVE SumValues(_, _)
SumValues(f, keys) ==
  IF keys = {} THEN 0
  ELSE LET k == CHOOSE x \in keys : TRUE
       IN  f[k].val + SumValues(f, keys \ {k})

\* main.py:289-290: scores = judge_json.get("scores", {}) and the average
\* sum(scores.values()) / len(scores) if scores else 0, as the fraction sum/n.
average_score(judge_json) ==
  IF judge_json.kind # "dict"
  THEN [exc |-> "AttributeError", sum |-> 0, n |-> 1]
  ELSE LET scores == IF "scores" \in DOMAIN judge_json.val
                     THEN judge_json.val["scores"] ELSE EmptyDict
       IN  CASE ~Truthy(scores) -> [exc |-> "none", sum |-> 0, n |-> 1]
             [] scores.kind # "dict" -> [exc |-> "AttributeError", sum |-> 0, n |-> 1]
             [] \E k \in DOMAIN scores.val : scores.val[k].kind # "num" ->
                  [exc |-> "TypeError", sum |-> 0, n |-> 1]
             [] OTHER ->
                  [exc |-> "none", sum |-> SumValues(scores.val, DOMAIN scores.val),
                   n |-> Cardinality(DOMAIN scores.val)]

\* a variant of main.py:292 that compares with > where the code has >=
meets_threshold_strict(avg) == avg.sum * THRESHOLD_DEN > THRESHOLD_NUM * avg.n

\* main.py:292: avg_score >= 7.5
meets_threshold(avg) == avg.sum * THRESHOLD_DEN >= THRESHOLD_NUM * avg.n

\* main.py:292: if avg_score >= 7.5 or attempt == 2
accepts(avg, attempt) == meets_threshold(avg) \/ attempt = LAST_ATTEMPT

\* main.py:296: judge_json.get("revisions", [])[:5]
take_revisions(judge_json) ==
  IF "revisions" \notin DOMAIN judge_json.val
  THEN [exc |-> "none", revs |-> <<>>]
  ELSE LET r == judge_json.val["revisions"]
       IN  IF r.kind \in {"list", "str"}
           THEN [exc |-> "none", revs |-> Prefix(r.val, MAX_REVISIONS)]
           ELSE [exc |-> "TypeError", revs |-> <<>>]

(***************************************************************************)
(* Mood, themes and setting.                                               *)
(***************************************************************************)
UPPERCASE ==
  << "A", "B", "C", "D", "E", "F", "G", "H", "I", "J", "K", "L", "M",
     "N", "O", "P", "Q", "R", "S", "T", "U", "V", "W", "X", "Y", "Z" >>
LOWERCASE ==
  << "a", "b", "c", "d", "e", "f", "g", "h", "i", "j", "k", "l", "m",
     "n", "o", "p", "q", "r", "s", "t", "u", "v", "w", "x", "y", "z" >>

\* str.lower()
lower(text) ==
  [i \in DOMAIN text |->
     IF \E k \in DOMAIN UPPERCASE : UPPERCASE[k] = text[i]
     THEN LOWERCASE[CHOOSE k \in DOMAIN UPPERCASE : UPPERCASE[k] = text[i]]
     ELSE text[i]]

\* a variant of main.py:76-78 that adds one point for each place a keyword
\* occurs at
mood_score_occurrences(low, keys) ==
  Cardinality({ kp \in (DOMAIN keys) \X (1..Len(low)) :
                  /\ kp[2] + Len(keys[kp[1]]) - 1 <= Len(low)
                  /\ SubSeq(low, kp[2], kp[2] + Len(keys[kp[1]]) - 1) = keys[kp[1]] })

\* main.py:74-78: one point for each keyword of the mood found in the text
mood_score(low, keys) == Cardinality({ k \in DOMAIN keys : IsSubstring(keys[k], low) })

\* a variant of main.py:72-88 that lets a keyword score decide before it
\* looks for a direct mention
detect_mood_scored_first(user_text) ==
  LET low      == lower(user_text)
      score(i) == mood_score(low, MOOD_KEYWORDS[i].keys)
      direct   == { i \in DOMAIN MOOD_LABELS : IsSubstring(MOOD_LABELS[i].name, low) }
      best     == CHOOSE i \in DOMAIN MOOD_KEYWORDS :
                    /\ \A j \in DOMAIN MOOD_KEYWORDS : score(j) <= score(i)
                    /\ \A j \in 1..(i - 1) : score(j) < score(i)
  IN  IF score(best) > 0 THEN MOOD_KEYWORDS[best].mood
      ELSE IF direct # {}
      THEN MOOD_LABELS[CHOOSE i \in direct : \A j \in direct : i <= j].mood
      ELSE "calm"

\* main.py:72-88
detect_mood(user_text) ==
  LET low      == lower(user_text)
      score(i) == mood_score(low, MOOD_KEYWORDS[i].keys)
      direct   == { i \in DOMAIN MOOD_LABELS : IsSubstring(MOOD_LABELS[i].name, low) }
      \* max() keeps the first of the largest
      best     == CHOOSE i \in DOMAIN MOOD_KEYWORDS :
                    /\ \A j \in DOMAIN MOOD_KEYWORDS : score(j) <= score(i)
                    /\ \A j \in 1..(i - 1) : score(j) < score(i)
  IN  IF direct # {}
      THEN MOOD_LABELS[CHOOSE i \in direct : \A j \in direct : i <= j].mood
      ELSE IF score(best) = 0 THEN "calm" ELSE MOOD_KEYWORDS[best].mood

\* main.py:92
other_themes(themes_list) == SelectSeq(themes_list, LAMBDA t : t # "Problem Solving")

\* a variant of main.py:92-93 that samples from the whole catalog
select_themes_unfiltered(themes_list, picks, perm) ==
  IF Len(themes_list) < 3
  THEN [exc |-> "ValueError", themes |-> <<>>]
  ELSE LET chosen == [i \in 1..3 |-> themes_list[picks[i]]] \o <<"Problem Solving">>
       IN  [exc |-> "none", themes |-> [i \in 1..4 |-> chosen[perm[i]]]]

\* main.py:91-96 over the catalog THEMES holds: picks are the three distinct
\* positions random.sample draws in others, perm the order random.shuffle
\* leaves the four in.  random.sample raises ValueError when asked for more
\* than the population has.
select_themes(themes_list, picks, perm) ==
  LET others == other_themes(themes_list)
  IN  IF Len(others) < 3
      THEN [exc |-> "ValueError", themes |-> <<>>]
      ELSE LET chosen == [i \in 1..3 |-> others[picks[i]]] \o <<"Problem Solving">>
           IN  [exc |-> "none", themes |-> [i \in 1..4 |-> chosen[perm[i]]]]

\* main.py:98-99: pick is the position random.choice draws
select_setting(pick) == SETTINGS[pick]

(***************************************************************************)
(* Prompts.  A builder gives [exc, prompt]: the exception it raises, or    *)
(* what the prompt embeds.                                                 *)
(***************************************************************************)
NoPrompt == [kind |-> "none"]

Built(p) == [exc |-> "none", prompt |-> p]

\* main.py:102-133
build_story_prompt(user_request, m, th, st) ==
  Built([kind |-> "story", request |-> user_request, mood |-> m, themes |-> th,
         setting |-> st])

\* main.py:136-169.  The template is an f-string, and the example of the
\* expected output in it (lines 163-167) is written with single braces.  To
\* Python the example is therefore not literal text but a replacement field:
\* the expression "scores" with a format specification that holds the nested
\* field {"AgeAppropriateness":9, "ToneCalmness":8, ...}, which is the string
\* "AgeAppropriateness" formatted with the specification
\* '9, "ToneCalmness":8, ...'.  str.__format__ rejects that specification:
\* ValueError, whatever story_text is, and no prompt text is produced.
build_judge_prompt(story_text) == [exc |-> "ValueError", prompt |-> NoPrompt]

\* main.py:298-314
build_rewrite_prompt(revisions, story_text) ==
  Built([kind |-> "rewrite", revisions |-> revisions, story |-> story_text])

\* main.py:172-183
build_trading_cards_prompt(story_text) == Built([kind |-> "cards", story |-> story_text])

\* main.py:186-195
build_soundtrack_prompt(m, st) == Built([kind |-> "soundtrack", mood |-> m, setting |-> st])

(***************************************************************************)
(* The text-generation client and the service behind it.                   *)
(***************************************************************************)
\* a text not produced yet
NoText == <<"<unset>">>

\* what the service does with one call: it raises (timeout, transport,
\* authentication), or it answers a text
Raises == [exc |-> "APIError", text |-> NoText]
Says(t) == [exc |-> "none", text |-> t]

\* a variant of main.py:60-68 that looks for the key only after the service
\* has been invoked
call_model_late(key, answer) ==
  IF ~key
  THEN [exc |-> "RuntimeError", text |-> NoText, invoked |-> TRUE]
  ELSE [exc |-> answer.exc, text |-> answer.text, invoked |-> TRUE]

\* main.py:59-69.  Without an API key call_model raises before the service is
\* invoked; otherwise what the service does is what call_model does: its
\* exception goes up, its text is returned as it is, an empty text as well.
call_model(key, answer) ==
  IF ~key
  THEN [exc |-> "RuntimeError", text |-> NoText, invoked |-> FALSE]
  ELSE [exc |-> answer.exc, text |-> answer.text, invoked |-> TRUE]

\* a story call raises, answers nothing, or answers a story of its own
StoryAnswers(name) == { Raises, Says(<<>>), Says(<<name>>) }

\* the first and the second rewrite call of a request
RewriteAnswers ==
  { << Says(<<"rewrite-1-text">>), Says(<<"rewrite-2-text">>) >>,
    << Says(<<"rewrite-1-text">>), Raises >>,
    << Says(<<>>), Says(<<"rewrite-2-text">>) >> }

JudgeBodies ==
  { "high", "boundary", "below", "low2", "low6", "low-norev", "low-nullrev",
    "empty", "nullscores", "listscores", "textscores", "noscores" }

\* what the judge call may answer: the JSON asked for, bare or inside prose,
\* other JSON, no JSON
JudgeTexts ==
  { <<"{", b, "}">> : b \in JudgeBodies }
  \cup { <<"w", "{", "high", "}", "w">>, <<"7">>, <<"[scores]">>, <<"'scores'">>,
         <<"{", "w", "}">>, <<"w">>, <<>> }

JudgeAnswers == { Raises } \cup { Says(t) : t \in JudgeTexts }

\* what the cards call may answer: the object asked for (main.py:178), bare
\* or inside prose, or no JSON
CardsTexts ==
  { <<"{", "cards", "}">>, <<"w", "{", "cards", "}", "w">>, <<"{", "w", "}">>, <<>> }

CardsAnswers == { Raises } \cup { Says(t) : t \in CardsTexts }

\* what the soundtrack call may answer: the array asked for (main.py:194),
\* an object, or no JSON
SoundtrackTexts == { <<"[tracks]">>, <<"{", "cards", "}">>, <<"w">> }

SoundtrackAnswers == { Raises } \cup { Says(t) : t \in SoundtrackTexts }

\* the stubs: an answer for the calls of each kind
ServiceStubs ==
  [draft : StoryAnswers("draft-text"), judge : JudgeAnswers, rewrite : RewriteAnswers,
   cards : CardsAnswers, soundtrack : SoundtrackAnswers]

\* a service that answers every call as it is asked to
PlainService ==
  [draft      |-> Says(<<"draft-text">>),
   judge      |-> Says(<<"{", "high", "}">>),
   rewrite    |-> << Says(<<"rewrite-1-text">>), Says(<<"rewrite-2-text">>) >>,
   cards      |-> Says(<<"{", "cards", "}">>),
   soundtrack |-> Says(<<"[tracks]">>)]

(***************************************************************************)
(* The request's inputs.                                                   *)
(***************************************************************************)
\* request texts
UserInputs ==
  { <<"S","a","d"," ","c","a","t">>,
    <<"c","o","z","y"," ","h","o","w"," ","w","h","y">> }

\* what the random module draws for one request: the three positions
\* random.sample picks, the order random.shuffle leaves, random.choice's pick
RandomDraws ==
  { [picks |-> <<1, 2, 3>>, perm |-> <<1, 2, 3, 4>>, setting |-> 1],
    [picks |-> <<29, 5, 12>>, perm |-> <<4, 2, 1, 3>>, setting |-> 20] }

(***************************************************************************)
(* State.                                                                  *)
(***************************************************************************)
VARIABLES
  pc,               \* where the request is
  api_key,          \* main.py:27  whether openai.api_key is set
  service,          \* the stub behind the client, fixed for the request
  catalog,          \* THEMES as the module holds it
  peer,             \* the locals of a second request in progress, if any
  user_input,       \* request.text
  mood, themes, setting,
  story,            \* the current story text
  attempt,          \* the loop variable of main.py:266
  judge_json, cards_json, soundtrack_json,
  prompt,           \* the prompt of the latest call_model
  error,            \* the exception raised, "none" if none
  result,           \* what generate_and_refine_story returned
  response,         \* the HTTP response
  calls,            \* history: the service invocations made, in order
  failed_call,      \* history: the first call that raised or answered nothing
  accept_log        \* history: per judge evaluation, whether avg_score >= 7.5

vars ==
  << pc, api_key, service, catalog, peer, user_input, mood, themes, setting,
     story, attempt,
     judge_json, cards_json, soundtrack_json, prompt, error, result, response,
     calls, failed_call, accept_log >>

\* no second request
NoPeer == [pc |-> "none"]

NoResult == [returned |-> FALSE]
NoResponse == [status |-> 0]
NoCall == [n |-> 0, kind |-> "none", how |-> "none"]

\* the locals of generate_and_refine_story and the histories, before it runs
Fresh ==
  /\ user_input = NoText
  /\ mood = "" /\ themes = <<>> /\ setting = ""
  /\ story = NoText
  /\ attempt = 0
  /\ judge_json = Unset /\ cards_json = Unset /\ soundtrack_json = Unset
  /\ prompt = NoPrompt
  /\ error = "none"
  /\ result = NoResult
  /\ response = NoResponse
  /\ calls = <<>>
  /\ failed_call = NoCall
  /\ accept_log = <<>>

\* the server is up, with or without an API key, in front of some service;
\* without a key no service is ever reached, and one stands for all
Init ==
  /\ pc = "idle"
  /\ api_key \in BOOLEAN
  /\ service \in IF api_key THEN ServiceStubs ELSE { PlainService }
  /\ catalog = THEMES
  /\ peer = NoPeer
  /\ Fresh

\* history of one call_model: the invocation, and the first failure
LogCall(kind, out) ==
  /\ calls' = IF out.invoked THEN Append(calls, kind) ELSE calls
  /\ failed_call' =
       IF failed_call.how # "none" THEN failed_call
       ELSE IF out.exc # "none"
            THEN [n |-> Len(calls'), kind |-> kind, how |-> "raised"]
       ELSE IF out.text = <<>>
            THEN [n |-> Len(calls'), kind |-> kind, how |-> "empty"]
       ELSE failed_call

\* an exception leaves generate_and_refine_story
Raise(exc) ==
  /\ error' = exc
  /\ pc' = "raised"

(***************************************************************************)
(* The request, step by step.  A step ends at a call of the client.        *)
(***************************************************************************)
\* server.py:48-62: a request arrives and generate_and_refine_story is called
Receive ==
  /\ pc = "idle"
  /\ user_input' \in UserInputs
  /\ pc' = "context"
  /\ UNCHANGED << api_key, service, catalog, peer, mood, themes, setting,
                  story, attempt,
                  judge_json, cards_json, soundtrack_json, prompt, error, result,
                  response, calls, failed_call, accept_log >>

\* main.py:256-258
SelectContext ==
  /\ pc = "context"
  /\ \E d \in RandomDraws :
       LET chosen == select_themes(catalog, d.picks, d.perm)
       IN  /\ mood' = detect_mood(user_input)
           /\ IF chosen.exc # "none"
              THEN /\ Raise(chosen.exc)
                   /\ UNCHANGED << themes, setting >>
              ELSE /\ themes' = chosen.themes
                   /\ setting' = select_setting(d.setting)
                   /\ pc' = "draft"
                   /\ error' = error
  /\ UNCHANGED << api_key, service, catalog, peer, user_input, story, attempt,
                  judge_json,
                  cards_json, soundtrack_json, prompt, result, response,
                  calls, failed_call, accept_log >>

\* a variant of main.py:263 that makes the draft call again when it has
\* raised or answered nothing
Draft_retry ==
  /\ pc = "draft"
  /\ LET built == build_story_prompt(user_input, mood, themes, setting)
         out   == call_model(api_key, service.draft)
         again == IF out.exc # "none" THEN TRUE ELSE out.text = <<>>
     IN  /\ prompt' = built.prompt
         /\ LogCall("draft", out)
         /\ IF again
            THEN UNCHANGED << pc, story >>
            ELSE story' = out.text /\ pc' = "judge"
  /\ UNCHANGED << api_key, service, catalog, peer, user_input, mood, themes,
                  setting, attempt,
                  judge_json, cards_json, soundtrack_json, error, result, response,
                  accept_log >>

\* main.py:261-263
Draft ==
  /\ pc = "draft"
  /\ LET built == build_story_prompt(user_input, mood, themes, setting)
         out   == call_model(api_key, service.draft)
     IN  IF built.exc # "none"
         THEN /\ Raise(built.exc)
              /\ UNCHANGED << prompt, story, calls, failed_call >>
         ELSE /\ prompt' = built.prompt
              /\ LogCall("draft", out)
              /\ IF out.exc # "none"
                 THEN Raise(out.exc) /\ UNCHANGED story
                 ELSE /\ story' = out.text
                      /\ pc' = "judge"
                      /\ UNCHANGED error
  /\ UNCHANGED << api_key, service, catalog, peer, user_input, mood, themes,
                  setting, attempt,
                  judge_json, cards_json, soundtrack_json, result, response,
                  accept_log >>

\* main.py:288-294: the average and the decision on judge_json in round a;
\* break leads to line 318, falling through to line 295
Decision(jj, a) ==
  LET avg == average_score(jj)
  IN  IF avg.exc # "none"
      THEN Raise(avg.exc) /\ UNCHANGED accept_log
      ELSE /\ accept_log' = Append(accept_log, meets_threshold(avg))
           /\ pc' = IF accepts(avg, a) THEN "cards" ELSE "rewrite"
           /\ UNCHANGED error

\* a variant of main.py:266-267 that catches what a round raises and starts
\* the next round, with no bound on the rounds
Judge_retry ==
  /\ pc = "judge"
  /\ attempt' = attempt + 1
  /\ UNCHANGED << pc, api_key, service, catalog, peer, user_input, mood,
                  themes, setting, story,
                  judge_json, cards_json, soundtrack_json, prompt, error, result,
                  response, calls, failed_call, accept_log >>

\* main.py:267-294: one judge evaluation and the decision
Judge ==
  /\ pc = "judge"
  /\ LET built == build_judge_prompt(story)
         out   == call_model(api_key, service.judge)
         v     == judge_verdict(out.text)
     IN  IF built.exc # "none"
         THEN /\ Raise(built.exc)
              /\ UNCHANGED << prompt, judge_json, calls, failed_call, accept_log >>
         ELSE /\ prompt' = built.prompt
              /\ LogCall("judge", out)
              /\ IF out.exc # "none"
                 THEN Raise(out.exc) /\ UNCHANGED << judge_json, accept_log >>
                 ELSE /\ judge_json' = v.json
                      /\ IF v.exc # "none"
                         THEN Raise(v.exc) /\ UNCHANGED accept_log
                         ELSE Decision(v.json, attempt)
  /\ UNCHANGED << api_key, service, catalog, peer, user_input, mood, themes,
                  setting, story,
                  attempt, cards_json, soundtrack_json, result, response >>

\* main.py:266: the for loop's next round, or its end after MAX_ROUNDS rounds
next_round(a) ==
  IF a + 1 < MAX_ROUNDS
  THEN [pc |-> "judge", attempt |-> a + 1]
  ELSE [pc |-> "cards", attempt |-> a]

\* main.py:295-316: the rewrite of a rejected story
Rewrite ==
  /\ pc = "rewrite"
  /\ LET r     == take_revisions(judge_json)
         built == build_rewrite_prompt(r.revs, story)
         out   == call_model(api_key, service.rewrite[Min(attempt + 1, MAX_ROUNDS - 1)])
     IN  IF r.exc # "none"
         THEN /\ Raise(r.exc)
              /\ UNCHANGED << prompt, story, attempt, calls, failed_call >>
         ELSE /\ prompt' = built.prompt
              /\ LogCall("rewrite", out)
              /\ IF out.exc # "none"
                 THEN Raise(out.exc) /\ UNCHANGED << story, attempt >>
                 ELSE /\ story' = out.text
                      /\ attempt' = next_round(attempt).attempt
                      /\ pc' = next_round(attempt).pc
                      /\ UNCHANGED error
  /\ UNCHANGED << api_key, service, catalog, peer, user_input, mood, themes,
                  setting, judge_json,
                  cards_json, soundtrack_json, result, response, accept_log >>

\* main.py:318-325
Cards ==
  /\ pc = "cards"
  /\ LET built == build_trading_cards_prompt(story)
         out   == call_model(api_key, service.cards)
     IN  IF built.exc # "none"
         THEN /\ Raise(built.exc)
              /\ UNCHANGED << prompt, cards_json, calls, failed_call >>
         ELSE /\ prompt' = built.prompt
              /\ LogCall("cards", out)
              /\ IF out.exc # "none"
                 THEN Raise(out.exc) /\ UNCHANGED cards_json
                 ELSE /\ cards_json' = parse_artifact(out.text)
                      /\ pc' = "soundtrack"
                      /\ UNCHANGED error
  /\ UNCHANGED << api_key, service, catalog, peer, user_input, mood, themes,
                  setting, story,
                  attempt, judge_json, soundtrack_json, result, response,
                  accept_log >>

\* main.py:327-333
Soundtrack ==
  /\ pc = "soundtrack"
  /\ LET built == build_soundtrack_prompt(mood, setting)
         out   == call_model(api_key, service.soundtrack)
     IN  IF built.exc # "none"
         THEN /\ Raise(built.exc)
              /\ UNCHANGED << prompt, soundtrack_json, calls, failed_call >>
         ELSE /\ prompt' = built.prompt
              /\ LogCall("soundtrack", out)
              /\ IF out.exc # "none"
                 THEN Raise(out.exc) /\ UNCHANGED soundtrack_json
                 ELSE /\ soundtrack_json' = parse_artifact(out.text)
                      /\ pc' = "return"
                      /\ UNCHANGED error
  /\ UNCHANGED << api_key, service, catalog, peer, user_input, mood, themes,
                  setting, story,
                  attempt, judge_json, cards_json, result, response, accept_log >>

\* main.py:335
Return ==
  /\ pc = "return"
  /\ result' = [returned |-> TRUE, story |-> story, judge_json |-> judge_json,
                cards_json |-> cards_json, soundtrack_json |-> soundtrack_json,
                mood |-> mood, themes |-> themes, setting |-> setting]
  /\ pc' = "returned"
  /\ UNCHANGED << api_key, service, catalog, peer, user_input, mood, themes,
                  setting, story,
                  attempt, judge_json, cards_json, soundtrack_json, prompt, error,
                  response, calls, failed_call, accept_log >>

\* server.py:33-40, 47: what the response model takes for a field
Validates(body) ==
  /\ body.judge.kind = "dict"
  /\ body.trading_cards.kind = "dict"
  /\ body.soundtrack.kind = "dict"

\* server.py:62-76: the response built from the returned tuple; it goes out
\* if the response model of line 47 takes it, and the framework answers 500
\* if not
http_response(res) ==
  LET body == [story |-> res.story, judge |-> res.judge_json,
               trading_cards |-> res.cards_json, soundtrack |-> res.soundtrack_json,
               mood |-> res.mood, themes |-> res.themes, setting |-> res.setting]
  IN  IF Validates(body)
      THEN [status |-> 200, body |-> body]
      ELSE [status |-> 500, body |-> [detail |-> "Internal Server Error"]]

\* a variant of server.py:78-85 that sends the story reached so far along
\* with the error
http_error_partial(exc) == [status |-> 500, body |-> [detail |-> exc, story |-> story]]

\* server.py:78-85: any exception becomes one HTTP 500
http_error(exc) == [status |-> 500, body |-> [detail |-> exc]]

\* server.py:62-76
Respond ==
  /\ pc = "returned"
  /\ response' = http_response(result)
  /\ pc' = "done"
  /\ UNCHANGED << api_key, service, catalog, peer, user_input, mood, themes,
                  setting, story,
                  attempt, judge_json, cards_json, soundtrack_json, prompt, error,
                  result, calls, failed_call, accept_log >>

\* server.py:78-85
HandleError ==
  /\ pc = "raised"
  /\ response' = http_error(error)
  /\ pc' = "done"
  /\ UNCHANGED << api_key, service, catalog, peer, user_input, mood, themes,
                  setting, story,
                  attempt, judge_json, cards_json, soundtrack_json, prompt, error,
                  result, calls, failed_call, accept_log >>

\* main.py:250-335: the step of generate_and_refine_story the request is at
Generate ==
  CASE pc = "context"    -> SelectContext
    [] pc = "draft"      -> Draft
    [] pc = "judge"      -> Judge
    [] pc = "rewrite"    -> Rewrite
    [] pc = "cards"      -> Cards
    [] pc = "soundtrack" -> Soundtrack
    [] pc = "return"     -> Return
    [] OTHER             -> FALSE

\* server.py:62-85: the response to a return and to an exception
Reply ==
  CASE pc = "returned" -> Respond
    [] pc = "raised"   -> HandleError
    [] OTHER           -> FALSE

Next ==
  \/ Receive
  \/ Generate
  \/ Reply

Spec == Init /\ [][Next]_vars

\* With build_judge_prompt raising at line 267, a request ends in its first
\* round: the draft call is the only call of the client, and the steps of
\* lines 268-335 and the response of server.py:62-76 are never taken.
FirstRoundIsLast ==
  /\ pc \notin { "rewrite", "cards", "soundtrack", "return", "returned" }
  /\ Len(calls) <= 1
  /\ pc = "done" => response.status = 500

(***************************************************************************)
(* The acceptance rule on its own: main.py:288-294 applied to a verdict    *)
(* and a round drawn from the values the two can take.                     *)
(***************************************************************************)
\* the scores a judge may give a criterion, among them 7 and 8 around 7.5
ScoreValues == { 0, 7, 8, 10 }

\* the scores maps over the first criteria, MaxCriteria of them at most
ScoreMaps ==
  UNION { [ { CRITERIA[i] : i \in 1..k } -> { JNum(x) : x \in ScoreValues } ] :
          k \in 1..MaxCriteria }

\* the verdicts the rule is applied to: a scores map of each kind; what lines
\* 269-286 make of each judge text; a verdict with no scores in it, which
\* line 289 allows for
Verdicts ==
  { JDict([scores |-> JDict(m), revisions |-> Revs(1)]) : m \in ScoreMaps }
  \cup { judge_verdict(t).json : t \in { x \in JudgeTexts : judge_verdict(x).exc = "none" } }
  \cup { JDict(BodyValue("noscores")) }

DecisionInit ==
  /\ pc = "decide"
  /\ api_key = TRUE
  /\ service = PlainService
  /\ catalog = THEMES
  /\ peer = NoPeer
  /\ user_input = NoText
  /\ mood = "" /\ themes = <<>> /\ setting = ""
  /\ story \in { <<"draft-text">>, <<"rewrite-1-text">> }
  /\ attempt \in 0..(MAX_ROUNDS - 1)
  /\ judge_json \in Verdicts
  /\ cards_json = Unset /\ soundtrack_json = Unset
  /\ prompt = NoPrompt
  /\ error = "none"
  /\ result = NoResult
  /\ response = NoResponse
  /\ calls = <<>>
  /\ failed_call = NoCall
  /\ accept_log = <<>>

\* main.py:288-294
Decide ==
  /\ pc = "decide"
  /\ Decision(judge_json, attempt)
  /\ UNCHANGED << api_key, service, catalog, peer, user_input, mood, themes,
                  setting, story,
                  attempt, judge_json, cards_json, soundtrack_json, prompt, result,
                  response, calls, failed_call >>

SpecDecision == DecisionInit /\ [][Decide]_vars

(***************************************************************************)
(* Mood detection on its own: main.py:72-88 applied to a request text      *)
(* drawn from short texts over a few words.                                *)
(***************************************************************************)
\* the most words in a drawn text
MaxWords == 3

\* words of a request: mood labels, one capitalised; keywords of other
\* moods; a word that is neither
MoodWords ==
  { <<"C","a","l","m">>, <<"s","a","d">>, <<"p","l","a","y","f","u","l">>,
    <<"l","o","s","t">>, <<"h","o","w">>, <<"w","h","y">>,
    <<"f","u","n">>, <<"c","a","t">> }

RECURSIVE JoinWords(_)
\* the words with a blank between them
JoinWords(ws) ==
  IF ws = <<>> THEN <<>>
  ELSE IF Len(ws) = 1 THEN ws[1]
  ELSE ws[1] \o <<" ">> \o JoinWords(Tail(ws))

\* the texts mood detection is applied to, the empty text among them
MoodTexts ==
  { JoinWords(ws) : ws \in UNION { [1..n -> MoodWords] : n \in 0..MaxWords } }

MoodInit ==
  /\ pc = "mood"
  /\ api_key = TRUE
  /\ service = PlainService
  /\ catalog = THEMES
  /\ peer = NoPeer
  /\ user_input \in MoodTexts
  /\ mood = "" /\ themes = <<>> /\ setting = ""
  /\ story = NoText
  /\ attempt = 0
  /\ judge_json = Unset /\ cards_json = Unset /\ soundtrack_json = Unset
  /\ prompt = NoPrompt
  /\ error = "none"
  /\ result = NoResult
  /\ response = NoResponse
  /\ calls = <<>>
  /\ failed_call = NoCall
  /\ accept_log = <<>>

\* main.py:256
DetectMood ==
  /\ pc = "mood"
  /\ mood' = detect_mood(user_input)
  /\ pc' = "mood-done"
  /\ UNCHANGED << api_key, service, catalog, peer, user_input, themes, setting,
                  story, attempt,
                  judge_json, cards_json, soundtrack_json, prompt, error, result,
                  response, calls, failed_call, accept_log >>

SpecMood == MoodInit /\ [][DetectMood]_vars

(***************************************************************************)
(* Theme selection on its own: main.py:91-96 applied to the catalog and to *)
(* shorter catalogs, for the draws the random module can make.             *)
(***************************************************************************)
\* the longest of the shortened catalogs
MaxCatalog == 5

\* the positions of others a draw reaches, besides the last one
MaxPickPosition == 4

\* THEMES, and THEMES cut to its first entries
Catalogs == { THEMES } \cup { SubSeq(THEMES, 1, k) : k \in 0..MaxCatalog }

\* random.sample(others, k=3): three distinct positions of others
SamplePicks(themes_list) ==
  LET n   == Len(other_themes(themes_list))
      pos == { p \in 1..n : p <= MaxPickPosition \/ p = n }
  IN  IF n < 3 THEN { <<1, 2, 3>> }
      ELSE { p \in [1..3 -> pos] : p[1] # p[2] /\ p[1] # p[3] /\ p[2] # p[3] }

\* random.shuffle(chosen): an order of the four
Shuffles == { p \in [1..4 -> 1..4] : \A i \in 1..4 : \E j \in 1..4 : p[j] = i }

ThemesInit ==
  /\ pc = "themes"
  /\ api_key = TRUE
  /\ service = PlainService
  /\ catalog \in Catalogs
  /\ peer = NoPeer
  /\ Fresh

\* main.py:257
SelectThemes ==
  /\ pc = "themes"
  /\ \E picks \in SamplePicks(catalog), perm \in Shuffles :
       LET chosen == select_themes(catalog, picks, perm)
       IN  IF chosen.exc # "none"
           THEN /\ Raise(chosen.exc)
                /\ UNCHANGED themes
           ELSE /\ themes' = chosen.themes
                /\ pc' = "themes-done"
                /\ error' = error
  /\ UNCHANGED << api_key, service, catalog, peer, user_input, mood, setting,
                  story,
                  attempt, judge_json, cards_json, soundtrack_json, prompt, result,
                  response, calls, failed_call, accept_log >>

SpecThemes == ThemesInit /\ [][SelectThemes]_vars

(***************************************************************************)
(* Tolerant parsing on its own: main.py:268-269 applied to a judge text    *)
(* drawn from the short texts over a few tokens.                           *)
(***************************************************************************)
\* the most tokens in a drawn text
MaxParseLen == 4

\* braces, prose, a JSON literal, and the members of a JSON object
ParseTokens == { "{", "}", "w", "7", "cards" }

ParseTexts == UNION { [1..n -> ParseTokens] : n \in 0..MaxParseLen }

ParseInit ==
  /\ pc = "parse"
  /\ api_key = TRUE
  /\ service \in { [PlainService EXCEPT !.judge = Says(t)] : t \in ParseTexts }
  /\ catalog = THEMES
  /\ peer = NoPeer
  /\ Fresh

\* main.py:268-269
Parse ==
  /\ pc = "parse"
  /\ LET out == call_model(api_key, service.judge)
     IN  judge_json' = parse_json_safe(out.text)
  /\ pc' = "parsed"
  /\ UNCHANGED << api_key, service, catalog, peer, user_input, mood, themes,
                  setting, story,
                  attempt, cards_json, soundtrack_json, prompt, error, result,
                  response, calls, failed_call, accept_log >>

SpecParse == ParseInit /\ [][Parse]_vars

(***************************************************************************)
(* Two requests in progress at once.  The variables hold the request that  *)
(* is running, peer the one that waits; a switch passes control from one   *)
(* to the other between two steps.  What a request keeps in the locals of  *)
(* generate_story and generate_and_refine_story goes with it; the module's *)
(* api_key and catalog are the same for both.                              *)
(***************************************************************************)
\* the locals and the histories of the running request
Frame ==
  [pc |-> pc, service |-> service, user_input |-> user_input, mood |-> mood,
   themes |-> themes, setting |-> setting, story |-> story, attempt |-> attempt,
   judge_json |-> judge_json, cards_json |-> cards_json,
   soundtrack_json |-> soundtrack_json, prompt |-> prompt, error |-> error,
   result |-> result, response |-> response, calls |-> calls,
   failed_call |-> failed_call, accept_log |-> accept_log]

\* a request that has not been received yet, in front of the service s
IdleFrame(s) ==
  [pc |-> "idle", service |-> s, user_input |-> NoText, mood |-> "",
   themes |-> <<>>, setting |-> "", story |-> NoText, attempt |-> 0,
   judge_json |-> Unset, cards_json |-> Unset, soundtrack_json |-> Unset,
   prompt |-> NoPrompt, error |-> "none", result |-> NoResult,
   response |-> NoResponse, calls |-> <<>>, failed_call |-> NoCall,
   accept_log |-> <<>>]

\* what the service may answer one of the two requests
PairStubs ==
  { PlainService,
    [PlainService EXCEPT !.draft = Says(<<"other-draft-text">>)],
    [PlainService EXCEPT !.draft = Raises],
    [PlainService EXCEPT !.draft = Says(<<>>)] }

PairInit ==
  /\ pc = "idle"
  /\ api_key = TRUE
  /\ service \in PairStubs
  /\ catalog = THEMES
  /\ peer \in { IdleFrame(s) : s \in PairStubs }
  /\ Fresh

\* a variant of the switch for a story kept in a module-level variable: the
\* story stays where it is when control passes
Switch_shared_story ==
  /\ peer' = Frame
  /\ pc' = peer.pc
  /\ service' = peer.service
  /\ user_input' = peer.user_input
  /\ mood' = peer.mood
  /\ themes' = peer.themes
  /\ setting' = peer.setting
  /\ attempt' = peer.attempt
  /\ judge_json' = peer.judge_json
  /\ cards_json' = peer.cards_json
  /\ soundtrack_json' = peer.soundtrack_json
  /\ prompt' = peer.prompt
  /\ error' = peer.error
  /\ result' = peer.result
  /\ response' = peer.response
  /\ calls' = peer.calls
  /\ failed_call' = peer.failed_call
  /\ accept_log' = peer.accept_log
  /\ UNCHANGED << api_key, catalog, story >>

\* server.py:47-48, main.py:250: control passes to the other request, each
\* request keeping its own locals
Switch ==
  /\ peer' = Frame
  /\ pc' = peer.pc
  /\ service' = peer.service
  /\ user_input' = peer.user_input
  /\ mood' = peer.mood
  /\ themes' = peer.themes
  /\ setting' = peer.setting
  /\ story' = peer.story
  /\ attempt' = peer.attempt
  /\ judge_json' = peer.judge_json
  /\ cards_json' = peer.cards_json
  /\ soundtrack_json' = peer.soundtrack_json
  /\ prompt' = peer.prompt
  /\ error' = peer.error
  /\ result' = peer.result
  /\ response' = peer.response
  /\ calls' = peer.calls
  /\ failed_call' = peer.failed_call
  /\ accept_log' = peer.accept_log
  /\ UNCHANGED << api_key, catalog >>

NextPair == Receive \/ Generate \/ Reply \/ Switch

SpecPair == PairInit /\ [][NextPair]_vars

(***************************************************************************)
(* What the properties below speak of.                                     *)
(***************************************************************************)
\* the service invocations of one kind made so far
NumCalls(kind) == Cardinality({ i \in DOMAIN calls : calls[i] = kind })

\* the stub answers a call with a text that is not empty
AnswersText(a) == a.exc = "none" /\ a.text # <<>>

\* the client works for the loop: a key, and a text for every story and
\* judge call
LoopCallsAnswerText ==
  /\ api_key
  /\ AnswersText(service.draft)
  /\ AnswersText(service.judge)
  /\ \A i \in DOMAIN service.rewrite : AnswersText(service.rewrite[i])

\* the client works for the whole request
EveryCallAnswersText ==
  /\ LoopCallsAnswerText
  /\ AnswersText(service.cards)
  /\ AnswersText(service.soundtrack)

\* the judge's text is a verdict with a number for each of its criteria
JudgeScoresGiven ==
  LET parsed == parse_json_safe(service.judge.text)
  IN  /\ parsed.kind = "dict"
      /\ "scores" \in DOMAIN parsed.val
      /\ parsed.val["scores"].kind = "dict"
      /\ DOMAIN parsed.val["scores"].val # {}
      /\ \A c \in DOMAIN parsed.val["scores"].val :
            parsed.val["scores"].val[c].kind = "num"
      /\ "revisions" \in DOMAIN parsed.val
      /\ parsed.val["revisions"].kind = "list"

\* twice the sum of the judge's scores, and fifteen times their number:
\* the mean is at least 7.5 when the first is at least the second
JudgeTwiceSum ==
  LET s == parse_json_safe(service.judge.text).val["scores"].val
  IN  2 * SumValues(s, DOMAIN s)

JudgeFifteenTimes ==
  15 * Cardinality(DOMAIN parse_json_safe(service.judge.text).val["scores"].val)

\* the judge's text does not parse, or has no scores in it
JudgeOutputUnusable ==
  LET parsed == parse_json_safe(service.judge.text)
  IN  IF parsed.kind = "dict" THEN "scores" \notin DOMAIN parsed.val ELSE TRUE

\* the loop was left by an accepting evaluation
LoopAccepted ==
  /\ accept_log # <<>>
  /\ IF accept_log[Len(accept_log)] THEN TRUE ELSE Len(accept_log) = MAX_ROUNDS

BundleFields ==
  { "story", "judge", "trading_cards", "soundtrack", "mood", "themes", "setting" }

\* the two ways a request ends
CompleteBundle ==
  /\ response.status = 200
  /\ DOMAIN response.body = BundleFields
  /\ result.returned
  /\ error = "none"

FailureOnly ==
  /\ response.status = 500
  /\ DOMAIN response.body = { "detail" }

LoopEndsAccepted ==
  (pc = "done" /\ EveryCallAnswersText) => LoopAccepted

\* C3: applied to a scores map and a round, the rule accepts exactly when
\* the mean of the scores is at least 7.5 or the round is the last one,
\* MAX_ROUNDS - 1; a missing or empty map has mean 0; nothing else decides.
AcceptanceRule ==
  LET given  == IF judge_json.kind = "dict"
                THEN IF "scores" \in DOMAIN judge_json.val
                     THEN judge_json.val["scores"] ELSE EmptyDict
                ELSE Unset
      scored == IF given.kind = "dict"
                THEN \A c \in DOMAIN given.val : given.val[c].kind = "num"
                ELSE FALSE
      n      == Cardinality(DOMAIN given.val)
      total  == SumValues(given.val, DOMAIN given.val)
      high   == IF n = 0 THEN FALSE ELSE 2 * total >= 15 * n
      last   == attempt = MAX_ROUNDS - 1
  IN  (pc \in { "cards", "rewrite", "raised" } /\ scored)
        => /\ pc # "raised"
           /\ (pc = "cards") <=> (IF high THEN TRUE ELSE last)

\* a mean of exactly 7.5, accepted in the first round
ExactThresholdAccepted ==
  /\ pc = "cards"
  /\ attempt = 0
  /\ judge_json.val["scores"].val =
       [c \in { "AgeAppropriateness", "ToneCalmness" } |->
          IF c = "AgeAppropriateness" THEN JNum(7) ELSE JNum(8)]
  /\ accept_log = << TRUE >>

\* C4: when the judge's mean is below 7.5 on every round, the request makes
\* exactly three judge calls and two rewrite calls, and returns the text of
\* the second rewrite with the verdict of the third evaluation.
AlwaysLowForcesAccept ==
  (/\ pc = "done"
   /\ EveryCallAnswersText
   /\ JudgeScoresGiven
   /\ JudgeTwiceSum < JudgeFifteenTimes)
    => /\ NumCalls("judge") = 3
       /\ NumCalls("rewrite") = 2
       /\ result.returned
       /\ result.story = service.rewrite[2].text
       /\ result.judge_json = parse_json_safe(service.judge.text)

\* C5: when the judge's first mean is at least 7.5, the request makes one
\* draft call and one judge call and no rewrite call, and returns the text
\* of the draft.
FirstAcceptReturnsDraft ==
  (/\ pc = "done"
   /\ EveryCallAnswersText
   /\ JudgeScoresGiven
   /\ JudgeTwiceSum >= JudgeFifteenTimes)
    => /\ NumCalls("draft") = 1
       /\ NumCalls("judge") = 1
       /\ NumCalls("rewrite") = 0
       /\ result.returned
       /\ result.story = service.draft.text

\* C6: when the judge's text does not parse or has no scores key, the
\* verdict used and returned is the fallback verdict, and the request does
\* not fail.
UnusableJudgeOutputFallsBack ==
  (pc = "done" /\ EveryCallAnswersText /\ JudgeOutputUnusable)
    => /\ error = "none"
       /\ result.returned
       /\ result.judge_json = FALLBACK_VERDICT

\* C7: once a draft, judge or rewrite call has raised or answered nothing,
\* no further call of the client is made, no story is returned, and the
\* request ends in the failure response.
NoCallAfterFailure ==
  (failed_call.kind \in { "draft", "judge", "rewrite" })
    => /\ Len(calls) = failed_call.n
       /\ ~result.returned
       /\ pc = "done" => FailureOnly

\* a request whose draft call answered nothing, at its end
EmptyDraftEndsRequest ==
  /\ pc = "done"
  /\ failed_call = [n |-> 1, kind |-> "draft", how |-> "empty"]
  /\ response.status = 500

\* C8: a cards call that fails keeps neither the soundtrack from being made
\* nor the story from being returned.
DerivationFailureIsolated ==
  (/\ pc = "done"
   /\ LoopCallsAnswerText
   /\ service.cards = Raises
   /\ AnswersText(service.soundtrack))
    => /\ NumCalls("soundtrack") = 1
       /\ result.returned
       /\ result.soundtrack_json = parse_artifact(service.soundtrack.text)

\* C9: when the cards text cannot be parsed the request does not fail: the
\* cards slot holds the tagged error with the raw text, and the story, the
\* verdict and the soundtrack are returned as they are.
UnparseableCardsTolerated ==
  (/\ pc = "done"
   /\ EveryCallAnswersText
   /\ IsParseError(parse_artifact(service.cards.text)))
    => /\ result.returned
       /\ IsParseError(result.cards_json)
       /\ result.cards_json.val["raw"] = JStr(service.cards.text)
       /\ result.soundtrack_json = parse_artifact(service.soundtrack.text)

\* C10: a request ends in exactly one of two ways, the bundle with its seven
\* fields or the failure response alone; a request in which an exception was
\* raised ends in the failure response, with nothing of the bundle in it.
OneOutcome ==
  pc = "done"
    => /\ CompleteBundle # FailureOnly
       /\ error # "none" => FailureOnly

\* a request that had its draft when it failed, at its end
DraftedThenFailed ==
  /\ pc = "done"
  /\ story = <<"draft-text">>
  /\ error = "ValueError"
  /\ FailureOnly

\* C11: a request to a server without an API key invokes the service not
\* once and produces no story, and it ends in the failure response with the
\* configuration error raised by the first call of the client.
NoKeyNoInvocation ==
  ~api_key
    => /\ calls = <<>>
       /\ story = NoText
       /\ ~result.returned
       /\ pc = "done" => (error = "RuntimeError" /\ FailureOnly)

\* a request without a key, at its end
NoKeyRequestFailed ==
  /\ ~api_key
  /\ pc = "done"
  /\ error = "RuntimeError"
  /\ failed_call = [n |-> 0, kind |-> "draft", how |-> "raised"]

\* the lower-cased text contains the label of the mood at position i
Mentions(i) == IsSubstring(MOOD_LABELS[i].name, lower(user_input))

\* the keyword score of the mood at position i for the text
ScoreOf(i) == mood_score(lower(user_input), MOOD_KEYWORDS[i].keys)

\* C12: when the lower-cased text contains a mood label, the detected mood is
\* the first label contained, in the order calm, anxious, excited, sad,
\* curious, playful, whatever the keyword scores are; a text with no label
\* and no keyword in it, the empty text included, gives calm.
DirectMentionOverrides ==
  pc = "mood-done"
    => /\ [i \in DOMAIN MOOD_LABELS |-> MOOD_LABELS[i].mood]
            = << "calm", "anxious", "excited", "sad", "curious", "playful" >>
       /\ \A i \in DOMAIN MOOD_LABELS :
            (Mentions(i) /\ \A j \in 1..(i - 1) : ~Mentions(j))
              => mood = MOOD_LABELS[i].mood
       /\ ((\A i \in DOMAIN MOOD_LABELS : ~Mentions(i))
            /\ (\A i \in DOMAIN MOOD_KEYWORDS : ScoreOf(i) = 0))
              => mood = "calm"

\* a text that mentions sad while curious scores higher gave sad
MentionBeatsHigherScore ==
  /\ pc = "mood-done"
  /\ Mentions(4) /\ ~Mentions(1)
  /\ ScoreOf(5) > ScoreOf(4)
  /\ mood = "sad"

\* C13: theme selection returns exactly four labels of the catalog, pairwise
\* distinct, "Problem Solving" among them, for every draw; it raises an error
\* and returns nothing when the catalog without "Problem Solving" has fewer
\* than three entries.
FourDistinctThemes ==
  /\ pc = "themes-done"
       => /\ Len(themes) = 4
          /\ \A i, j \in DOMAIN themes : i # j => themes[i] # themes[j]
          /\ \A i \in DOMAIN themes : themes[i] \in Range(catalog)
          /\ "Problem Solving" \in Range(themes)
  /\ Cardinality(Range(catalog) \ { "Problem Solving" }) < 3
       => /\ pc # "themes-done"
          /\ themes = <<>>
          /\ pc # "themes" => (pc = "raised" /\ error = "ValueError")

\* four themes drawn from the whole catalog, the mandatory one not last and
\* the last entry of the catalog among them
ThemesDrawnAndShuffled ==
  /\ pc = "themes-done"
  /\ catalog = THEMES
  /\ peer = NoPeer
  /\ themes[4] # "Problem Solving"
  /\ THEMES[Len(THEMES)] \in Range(themes)

\* the span of a text from its first "{" to its last "}", where the first
\* comes before the last: no span, or one
BraceSpans(text) ==
  { sp \in (DOMAIN text) \X (DOMAIN text) :
      /\ sp[1] < sp[2]
      /\ text[sp[1]] = "{" /\ \A k \in 1..(sp[1] - 1) : text[k] # "{"
      /\ text[sp[2]] = "}" /\ \A k \in (sp[2] + 1)..Len(text) : text[k] # "}" }

\* C14: tolerant parsing gives a value for every text and raises nothing: the
\* parsed text where the whole text is JSON; else the parse of the span from
\* the first "{" to the last "}" where that is JSON; else the error tagged
\* invalid_json where there is such a span, no_json where there is none, with
\* the raw text in it.
TolerantParseTotal ==
  pc = "parsed"
    => LET text  == service.judge.text
           whole == JsonLoads(text)
           spans == BraceSpans(text)
       IN  /\ error = "none"
           /\ judge_json # Unset
           /\ whole.ok => judge_json = whole.value
           /\ ~whole.ok =>
                /\ \A sp \in spans :
                     LET inner == JsonLoads(SubSeq(text, sp[1], sp[2]))
                     IN  judge_json =
                           IF inner.ok THEN inner.value
                           ELSE JDict([error |-> JStr(<<"invalid_json">>),
                                       raw |-> JStr(text)])
                /\ spans = {} =>
                     judge_json = JDict([error |-> JStr(<<"no_json">>),
                                         raw |-> JStr(text)])

\* an object that follows prose was parsed out of its text
ObjectParsedOutOfProse ==
  /\ pc = "parsed"
  /\ service.judge.text = << "w", "{", "cards", "}" >>
  /\ judge_json = JDict(BodyValue("cards"))

\* the keywords of the mood at position i that occur in the lower-cased text
KeywordsFound(i) ==
  { k \in DOMAIN MOOD_KEYWORDS[i].keys :
      IsSubstring(MOOD_KEYWORDS[i].keys[k], lower(user_input)) }

\* the places in the lower-cased text where a keyword of the mood at
\* position i occurs
KeywordOccurrences(i) ==
  LET low  == lower(user_input)
      keys == MOOD_KEYWORDS[i].keys
  IN  { kp \in (DOMAIN keys) \X (1..Len(low)) :
          /\ kp[2] + Len(keys[kp[1]]) - 1 <= Len(low)
          /\ SubSeq(low, kp[2], kp[2] + Len(keys[kp[1]]) - 1) = keys[kp[1]] }

NoMention == \A i \in DOMAIN MOOD_LABELS : ~Mentions(i)

\* the mood detected is the first, in the order calm, anxious, excited, sad,
\* curious, playful, of those whose total is the highest
FirstHighest(total(_)) ==
  /\ [i \in DOMAIN MOOD_KEYWORDS |-> MOOD_KEYWORDS[i].mood]
       = << "calm", "anxious", "excited", "sad", "curious", "playful" >>
  /\ \E i \in DOMAIN MOOD_KEYWORDS :
       /\ mood = MOOD_KEYWORDS[i].mood
       /\ \A j \in DOMAIN MOOD_KEYWORDS : total(j) <= total(i)
       /\ \A j \in 1..(i - 1) : total(j) < total(i)

\* C15 as stated: with no mood label mentioned, the detected mood is the one
\* with the highest total count of occurrences of its keywords in the text,
\* the first in iteration order among equals.
HighestOccurrenceCountWins ==
  (pc = "mood-done" /\ NoMention)
    => FirstHighest(LAMBDA i : Cardinality(KeywordOccurrences(i)))

\* C15: with no mood label mentioned, the detected mood is the one with the
\* most keywords that occur in the text, a keyword counting once however
\* often it occurs, the first in iteration order among equals.
MostKeywordsFoundWins ==
  (pc = "mood-done" /\ NoMention)
    => FirstHighest(LAMBDA i : Cardinality(KeywordsFound(i)))

\* a keyword of curious occurs twice, one of anxious once, and the tie of one
\* keyword each went to anxious
RepeatedKeywordCountedOnce ==
  /\ pc = "mood-done"
  /\ NoMention
  /\ Cardinality(KeywordOccurrences(5)) = 2 /\ Cardinality(KeywordsFound(5)) = 1
  /\ Cardinality(KeywordOccurrences(2)) = 1
  /\ mood = "anxious"

\* the call orders of a request that rewrites k times
CallOrder(k) ==
  << "draft", "judge" >>
    \o [i \in 1..(2 * k) |-> IF i % 2 = 1 THEN "rewrite" ELSE "judge"]
    \o << "cards", "soundtrack" >>

JudgeRejects ==
  LET parsed == parse_json_safe(service.judge.text)
  IN  /\ parsed.kind = "dict"
      /\ "scores" \in DOMAIN parsed.val
      /\ parsed.val["scores"].kind = "dict"
      /\ DOMAIN parsed.val["scores"].val # {}
      /\ \A c \in DOMAIN parsed.val["scores"].val :
            parsed.val["scores"].val[c].kind = "num"
      /\ JudgeTwiceSum < JudgeFifteenTimes
      /\ "revisions" \in DOMAIN parsed.val => parsed.val["revisions"].kind = "list"

\* the revision instructions of the judge's verdict, in its order
JudgeRevisions ==
  LET parsed == parse_json_safe(service.judge.text)
  IN  IF "revisions" \in DOMAIN parsed.val THEN parsed.val["revisions"].val ELSE <<>>

SameOutcome ==
  /\ attempt = peer.attempt
  /\ calls = peer.calls
  /\ accept_log = peer.accept_log
  /\ story = peer.story
  /\ judge_json = peer.judge_json
  /\ error = peer.error
  /\ result.returned = peer.result.returned
  /\ response.status = peer.response.status

JudgeNeverParses == IsParseError(parse_json_safe(service.judge.text))

\* C20: the fallback verdict has mean 7.25, below the threshold, and a
\* request whose judge text never parses makes exactly three judge calls
\* and two rewrite calls, each rewrite with the fallback's two revisions,
\* and returns the fallback verdict.
FallbackRejectsUntilLastRound ==
  /\ LET avg == average_score(FALLBACK_VERDICT)
     IN  /\ avg.exc = "none"
         /\ 4 * avg.sum = 29 * avg.n
         /\ ~meets_threshold(avg)
         /\ Len(take_revisions(FALLBACK_VERDICT).revs) = 2
  /\ (pc = "done" /\ EveryCallAnswersText /\ JudgeNeverParses)
       => /\ NumCalls("judge") = MAX_ROUNDS
          /\ NumCalls("rewrite") = MAX_ROUNDS - 1
          /\ accept_log = << FALSE, FALSE, FALSE >>
          /\ result.returned
          /\ result.judge_json = FALLBACK_VERDICT

=============================================================================
